---------------------------- MODULE Spec2Model ----------------------------
(***************************************************************************)
(* A model of src/ephemeris_time.py: the admission filter and the greedy   *)
(* earliest-finish scheduler of optimize_schedule, and the equivalence     *)
(* counter count_max_schedules.                                            *)
(*                                                                         *)
(* Times are integers counting minutes; durations are integers counting    *)
(* hours, as in the 'transitduration' column.  A float that may be NaN and *)
(* a Python value that may be None are both modelled as a sequence of      *)
(* length at most one: <<>> is NaN/None (pd.isna is true of both) and      *)
(* <<v>> is the value v.  A range option that is switched off (False,      *)
(* None) is <<>>, a range is <<min, max>>.                                 *)
(*                                                                         *)
(* A row of current_row_info is the tuple the code builds, in the code's   *)
(* order; Python's position k is position k+1 here:                        *)
(*   <<name, duration, midpoint, transit_start_time, transit_end_time,     *)
(*     ra, dec, period, transitdepth, air_mass, mag_k>>                    *)
(* A cut list row is that tuple with the cause appended.                   *)
(***************************************************************************)
EXTENDS Integers, Sequences, FiniteSets

VARIABLES
    \* ---- arguments of optimize_schedule
    df,                  \* [columns |-> set of column names, rows |-> sequence of rows]
    magnitude_limit,     \* <<min, max>> or <<>>
    air_mass_lim,        \* BOOLEAN
    setup_time,          \* BOOLEAN
    period_limit,        \* <<min, max>> or <<>> (False)
    transit_depth_limit, \* <<min, max>> or <<>>
    max_airmass,         \* <<maxingressairmass, maxegressairmass>>
    nanignore_airmass,   \* BOOLEAN
    time_window,         \* <<window_start, window_end>>, each None or <<t>>
    \* ---- locals of optimize_schedule
    pc,                  \* position of the running function
    row_i,               \* position of the filter loop (line 187) in df.rows
    valid_candidates,    \* list of current_row_info (line 176)
    cut_list,            \* list of current_row_info + [cause] (line 177)
    valid_candidates_df, \* valid_candidates after sort_values (line 264)
    scan_i,              \* position of the scan loop (line 269)
    optimized_schedule,  \* rows accepted by the scan (line 266)
    last_end_time,       \* None or <<t>> (line 267)
    optimized_schedule_df, \* the returned schedule, with the schedule columns
    \* ---- count_max_schedules
    all_schedules,       \* list of candidate schedules, each a list of events
    max_transit_count,   \* line 329
    max_schedules_count, \* line 332
    cand_i,              \* position of the outer loop (line 335)
    event_i,             \* position of the inner loop (line 340)
    temp_schedule,       \* line 337
    cand_last_end_time,  \* line 338
    result               \* the value returned at line 350, None before

inputs == <<df, magnitude_limit, air_mass_lim, setup_time, period_limit,
            transit_depth_limit, max_airmass, nanignore_airmass, time_window>>
locals == <<row_i, valid_candidates, cut_list, valid_candidates_df, scan_i,
            optimized_schedule, last_end_time>>
counter == <<all_schedules, max_transit_count, max_schedules_count, cand_i,
             event_i, temp_schedule, cand_last_end_time, result>>
vars == <<inputs, locals, optimized_schedule_df, pc, counter>>

---------------------------------------------------------------------------
\* Bounds of the model.
MaxRows == 3        \* rows of the input table
MaxMidSlot == 2     \* midpoints are whole hours 0 .. MaxMidSlot
MaxCandidates == 2  \* candidate schedules given to count_max_schedules
MaxEvents == 2      \* events of one candidate schedule

\* Constants of the program.
SetupMinutes == 30
MinutesPerHour == 60
AirMassCap == 2

None == <<>>
NaN == <<>>
isna(x) == x = <<>>
Truthy(x) == x # <<>>

\* x < n and x > n for a float x that may be NaN: every comparison with NaN is false.
NumLt(x, n) == ~isna(x) /\ x[1] < n
NumGt(x, n) == ~isna(x) /\ x[1] > n

SeqsUpTo(S, n) == UNION {[1..k -> S] : k \in 0..n}

\* The causes written to the cut list.
DurationIsNaN == "Duration is NaN"
PeriodExceeded == "Period limit exceeded"
BeforeWindow == "Transit start time is before the time window"
AfterWindow == "Transit end time is after the time window"
MagnitudeExceeded == "Magnitude limit exceeded"
AirMassExceeded == "Air mass limit exceeded"
DepthExceeded == "Transit depth limit exceeded"
AirMassNaN == "NaN in ingress/egress air mass"
AirMassMissing == "Ingress/Egress air mass data missing"
IngressEgressExceeded == "Ingress/Egress air mass limit exceeded"
Overlapping == "Overlapping with another target"
Admitted == "admitted"

\* Positions of a current_row_info tuple.
NameOf(info) == info[1]
DurationOf(info) == info[2]
MidpointOf(info) == info[3]
StartOf(info) == info[4]
EndOf(info) == info[5]
CauseOf(entry) == entry[12]

---------------------------------------------------------------------------
\* calculate_transit_times, lines 55-73.  pd.Timedelta(hours=duration / 2).
HalfDuration(duration) == (duration * MinutesPerHour) \div 2

calculate_transit_times_padstart(midpoint, duration, setup) ==
    IF setup
    THEN <<midpoint - SetupMinutes - HalfDuration(duration),
           midpoint + HalfDuration(duration)>>
    ELSE <<midpoint - HalfDuration(duration), midpoint + HalfDuration(duration)>>

calculate_transit_times(midpoint, duration, setup) ==
    IF setup
    THEN <<midpoint - SetupMinutes - HalfDuration(duration),
           midpoint + SetupMinutes + HalfDuration(duration)>>
    ELSE <<midpoint - HalfDuration(duration), midpoint + HalfDuration(duration)>>

\* Lines 181-182.
ingress_column_exists == "ingressairmass" \in df.columns
egress_column_exists == "egressairmass" \in df.columns

\* Lines 197-198.
ingress_air_mass(row) == IF ingress_column_exists THEN row.ingressairmass ELSE None
egress_air_mass(row) == IF egress_column_exists THEN row.egressairmass ELSE None

\* The tuple built at lines 207, 212, 226 (start, end None) and 230-231.
RowInfo(row, start, end) ==
    <<row.planetname, row.transitduration, row.midpointcalendar, start, end,
      row.ra, row.dec, row.period, row.transitdepthcalc, row.midpointairmass,
      row.magnitude_k>>

\* Line 210, 234, 240: value outside an enabled <<min, max>> range.
OutsideRange(limit, x) == Truthy(limit) /\ (NumLt(x, limit[1]) \/ NumGt(x, limit[2]))

\* Lines 244-247.
MissingCauseEitherColumn ==
    IF ingress_column_exists \/ egress_column_exists THEN AirMassNaN ELSE AirMassMissing

MissingCause ==
    IF ingress_column_exists /\ egress_column_exists THEN AirMassNaN ELSE AirMassMissing

\* Lines 233-255: the elif chain on a row that has its transit times.
QualityCauseAirMassFirst(row) ==
    IF air_mass_lim /\ NumGt(row.midpointairmass, AirMassCap) THEN AirMassExceeded
    ELSE IF OutsideRange(magnitude_limit, row.magnitude_k) THEN MagnitudeExceeded
    ELSE IF OutsideRange(transit_depth_limit, row.transitdepthcalc) THEN DepthExceeded
    ELSE IF ~nanignore_airmass /\ (isna(ingress_air_mass(row)) \/ isna(egress_air_mass(row)))
         THEN MissingCause
    ELSE IF \/ NumGt(ingress_air_mass(row), max_airmass[1])
            \/ NumGt(egress_air_mass(row), max_airmass[2])
         THEN IngressEgressExceeded
    ELSE Admitted

QualityCause(row) ==
    IF OutsideRange(magnitude_limit, row.magnitude_k) THEN MagnitudeExceeded
    ELSE IF air_mass_lim /\ NumGt(row.midpointairmass, AirMassCap) THEN AirMassExceeded
    ELSE IF OutsideRange(transit_depth_limit, row.transitdepthcalc) THEN DepthExceeded
    ELSE IF ~nanignore_airmass /\ (isna(ingress_air_mass(row)) \/ isna(egress_air_mass(row)))
         THEN MissingCause
    ELSE IF \/ NumGt(ingress_air_mass(row), max_airmass[1])
            \/ NumGt(egress_air_mass(row), max_airmass[2])
         THEN IngressEgressExceeded
    ELSE Admitted

\* Lines 217-222: None, or <<cause>>.
WindowCause(start, end) ==
    IF ~isna(time_window[1]) /\ start < time_window[1][1] THEN <<BeforeWindow>>
    ELSE IF ~isna(time_window[2]) /\ end > time_window[2][1] THEN <<AfterWindow>>
    ELSE None

\* Lines 205-255: what one iteration of the filter loop decides for a row when the
\* setup flag is `setup`: the cause (or Admitted) and the tuple it records.
RowOutcome(row, setup) ==
    IF isna(row.transitduration)
    THEN [cause |-> DurationIsNaN, info |-> RowInfo(row, None, None)]
    ELSE IF OutsideRange(period_limit, row.period)
    THEN [cause |-> PeriodExceeded, info |-> RowInfo(row, None, None)]
    ELSE LET times == calculate_transit_times(row.midpointcalendar,
                                              row.transitduration[1], setup)
             window == WindowCause(times[1], times[2])
         IN  IF window # None
             THEN [cause |-> window[1], info |-> RowInfo(row, None, None)]
             ELSE [cause |-> QualityCause(row),
                   info |-> RowInfo(row, <<times[1]>>, <<times[2]>>)]

---------------------------------------------------------------------------
\* Line 264: sort_values(by='Transit End Time') with the default kind, 'quicksort',
\* which pandas documents as not stable: the result is ascending in the end time
\* and rows with equal end times come in an order the call does not fix.
IsPermutation(p, n) == \A i, j \in 1..n : i # j => p[i] # p[j]

Orderings(rows) ==
    LET n == Len(rows)
    IN  {p \in [1..n -> 1..n] :
            /\ IsPermutation(p, n)
            /\ \A i, j \in 1..n : i < j => EndOf(rows[p[i]])[1] <= EndOf(rows[p[j]])[1]}

sort_values(rows) == {[i \in 1..Len(rows) |-> rows[p[i]]] : p \in Orderings(rows)}

\* Lines 271-276: the start and end the scan compares.
schedule_start_time(row) ==
    IF setup_time THEN StartOf(row)[1] - SetupMinutes ELSE StartOf(row)[1]
schedule_end_time(row) ==
    IF setup_time THEN EndOf(row)[1] + SetupMinutes ELSE EndOf(row)[1]

\* Line 279.
AcceptsByEnd(last, row) == isna(last) \/ schedule_end_time(row) >= last[1]

Accepts(last, row) == isna(last) \/ schedule_start_time(row) >= last[1]

\* Line 283.
CutOverlapDropped(cut, row) == cut

CutOverlap(cut, row) == Append(cut, row \o <<Overlapping>>)

\* Lines 297-302: the two schedule columns added to the returned schedule.
WithScheduleColumns(row) ==
    row \o <<schedule_start_time(row), schedule_end_time(row)>>
ScheduleStartOf(srow) == srow[12]
ScheduleEndOf(srow) == srow[13]

---------------------------------------------------------------------------
\* optimize_schedule, lines 153-309.

\* One iteration of the loop of line 187.
FilterRow ==
    /\ pc = "filter"
    /\ row_i <= Len(df.rows)
    /\ LET out == RowOutcome(df.rows[row_i], setup_time)
       IN  IF out.cause = Admitted
           THEN /\ valid_candidates' = Append(valid_candidates, out.info)
                /\ UNCHANGED cut_list
           ELSE /\ cut_list' = Append(cut_list, out.info \o <<out.cause>>)
                /\ UNCHANGED valid_candidates
    /\ row_i' = row_i + 1
    /\ UNCHANGED <<inputs, pc, valid_candidates_df, scan_i, optimized_schedule,
                   last_end_time, optimized_schedule_df, counter>>

\* Lines 257-267, when the loop of line 187 is over.
SortCandidates ==
    /\ pc = "filter"
    /\ row_i > Len(df.rows)
    /\ valid_candidates_df' \in sort_values(valid_candidates)
    /\ optimized_schedule' = <<>>
    /\ last_end_time' = None
    /\ scan_i' = 1
    /\ pc' = "scan"
    /\ UNCHANGED <<inputs, row_i, valid_candidates, cut_list,
                   optimized_schedule_df, counter>>

\* One iteration of the loop of line 269.
ScanRow ==
    /\ pc = "scan"
    /\ scan_i <= Len(valid_candidates_df)
    /\ LET row == valid_candidates_df[scan_i]
       IN  IF Accepts(last_end_time, row)
           THEN /\ optimized_schedule' = Append(optimized_schedule, row)
                /\ last_end_time' = <<schedule_end_time(row)>>
                /\ UNCHANGED cut_list
           ELSE /\ cut_list' = CutOverlap(cut_list, row)
                /\ UNCHANGED <<optimized_schedule, last_end_time>>
    /\ scan_i' = scan_i + 1
    /\ UNCHANGED <<inputs, pc, row_i, valid_candidates, valid_candidates_df,
                   optimized_schedule_df, counter>>

\* Lines 285-309, when the loop of line 269 is over.  An empty schedule is a
\* DataFrame without columns, and plot_schedule_with_plotly (line 123 or 131)
\* raises KeyError on schedule_df['Name']: the call returns nothing.
BuildAndReturn ==
    /\ pc = "scan"
    /\ scan_i > Len(valid_candidates_df)
    /\ IF optimized_schedule = <<>>
       THEN /\ pc' = "raised"
            /\ UNCHANGED optimized_schedule_df
       ELSE /\ pc' = "done"
            /\ optimized_schedule_df' =
                   [i \in 1..Len(optimized_schedule) |->
                       WithScheduleColumns(optimized_schedule[i])]
    /\ UNCHANGED <<inputs, locals, counter>>

---------------------------------------------------------------------------
\* count_max_schedules, lines 311-350.

\* Line 342: event[3] and event[4].
event_start_time(event) == event[4]
event_end_time(event) == event[5]

\* Line 343.
EventAcceptsStrict(last, event) == isna(last) \/ event_start_time(event)[1] > last[1]

EventAccepts(last, event) == isna(last) \/ event_start_time(event)[1] >= last[1]

\* Lines 329-332.
CountBegin ==
    /\ pc = "count"
    /\ max_transit_count' = Len(optimized_schedule_df)
    /\ max_schedules_count' = 0
    /\ cand_i' = 1
    /\ pc' = "candidates"
    /\ UNCHANGED <<inputs, locals, optimized_schedule_df, all_schedules, event_i,
                   temp_schedule, cand_last_end_time, result>>

\* Lines 335-338: the next candidate schedule is taken up.
CandidateBegin ==
    /\ pc = "candidates"
    /\ cand_i <= Len(all_schedules)
    /\ temp_schedule' = <<>>
    /\ cand_last_end_time' = None
    /\ event_i' = 1
    /\ pc' = "events"
    /\ UNCHANGED <<inputs, locals, optimized_schedule_df, all_schedules,
                   max_transit_count, max_schedules_count, cand_i, result>>

\* Lines 340-345: one event of the candidate.
EventStep ==
    /\ pc = "events"
    /\ event_i <= Len(all_schedules[cand_i])
    /\ LET event == all_schedules[cand_i][event_i]
       IN  IF EventAccepts(cand_last_end_time, event)
           THEN /\ temp_schedule' = Append(temp_schedule, event)
                /\ cand_last_end_time' = event_end_time(event)
           ELSE UNCHANGED <<temp_schedule, cand_last_end_time>>
    /\ event_i' = event_i + 1
    /\ UNCHANGED <<inputs, locals, optimized_schedule_df, all_schedules,
                   max_transit_count, max_schedules_count, cand_i, pc, result>>

\* Lines 347-348, when the candidate's events are over.
CandidateEnd ==
    /\ pc = "events"
    /\ event_i > Len(all_schedules[cand_i])
    /\ max_schedules_count' =
           IF Len(temp_schedule) = max_transit_count
           THEN max_schedules_count + 1
           ELSE max_schedules_count
    /\ cand_i' = cand_i + 1
    /\ pc' = "candidates"
    /\ UNCHANGED <<inputs, locals, optimized_schedule_df, all_schedules,
                   max_transit_count, event_i, temp_schedule, cand_last_end_time,
                   result>>

\* Line 350.
CountReturn ==
    /\ pc = "candidates"
    /\ cand_i > Len(all_schedules)
    /\ result' = <<max_schedules_count>>
    /\ pc' = "returned"
    /\ UNCHANGED <<inputs, locals, optimized_schedule_df, all_schedules,
                   max_transit_count, max_schedules_count, cand_i, event_i,
                   temp_schedule, cand_last_end_time>>

---------------------------------------------------------------------------
\* Input tables and configurations.

AllColumns == {"planetname", "transitduration", "midpointcalendar", "ra", "dec",
               "period", "transitdepthcalc", "midpointairmass", "ingressairmass",
               "egressairmass", "magnitude_k"}

Midpoints == {MinutesPerHour * k : k \in 0..MaxMidSlot}

\* Rows that pass every check but those on the duration and the time window.
TimedRows ==
    [planetname : {0}, transitduration : {NaN, <<0>>, <<2>>},
     midpointcalendar : Midpoints, ra : {0}, dec : {0}, period : {<<1>>},
     transitdepthcalc : {<<1>>}, midpointairmass : {<<1>>},
     ingressairmass : {<<1>>}, egressairmass : {<<1>>}, magnitude_k : {<<1>>}]

\* Rows with every combination of in-range, out-of-range and NaN fields, with
\* the air mass columns `columns` present.
QualityRows(columns) ==
    [planetname : {0}, transitduration : {NaN, <<2>>},
     midpointcalendar : {MinutesPerHour}, ra : {0}, dec : {0},
     period : {NaN, <<1>>, <<3>>},
     transitdepthcalc : {<<1>>, <<3>>}, midpointairmass : {<<1>>, <<3>>},
     ingressairmass : IF "ingressairmass" \in columns
                      THEN {NaN, <<1>>, <<3>>} ELSE {None},
     egressairmass : IF "egressairmass" \in columns
                     THEN {NaN, <<1>>, <<3>>} ELSE {None},
     magnitude_k : {<<1>>, <<3>>}]

\* The rows of a table are named by their position: 'planetname' is carried
\* through the function unread, and tells the rows apart in its outputs.
Named(rows) == [i \in 1..Len(rows) |-> [rows[i] EXCEPT !.planetname = i]]

InitLocals ==
    /\ pc = "filter"
    /\ row_i = 1
    /\ valid_candidates = <<>>
    /\ cut_list = <<>>
    /\ valid_candidates_df = <<>>
    /\ scan_i = 1
    /\ optimized_schedule = <<>>
    /\ last_end_time = None
    /\ optimized_schedule_df = <<>>

InitCounter ==
    /\ all_schedules = <<>>
    /\ max_transit_count = 0
    /\ max_schedules_count = 0
    /\ cand_i = 1
    /\ event_i = 1
    /\ temp_schedule = <<>>
    /\ cand_last_end_time = None
    /\ result = None

\* Tables of up to MaxRows timed rows, with the setup flag and a time window.
Init ==
    /\ \E rows \in SeqsUpTo(TimedRows, MaxRows) :
           df = [columns |-> AllColumns, rows |-> Named(rows)]
    /\ magnitude_limit = <<0, 2>>
    /\ air_mass_lim = TRUE
    /\ setup_time \in BOOLEAN
    /\ period_limit = <<>>
    /\ transit_depth_limit = <<0, 2>>
    /\ max_airmass = <<2, 2>>
    /\ nanignore_airmass = FALSE
    /\ time_window \in {<<None, None>>, <<<<-60>>, <<120>>>>}
    /\ InitLocals
    /\ InitCounter

Next == FilterRow \/ SortCandidates \/ ScanRow \/ BuildAndReturn

Spec == Init /\ [][Next]_vars

\* One-row tables with every combination of fields, under every combination of
\* the options, a max-less-than-min magnitude range included.
InitFilter ==
    /\ \E columns \in {AllColumns, AllColumns \ {"ingressairmass"},
                       AllColumns \ {"ingressairmass", "egressairmass"}} :
         \E row \in QualityRows(columns) :
           df = [columns |-> columns, rows |-> Named(<<row>>)]
    /\ magnitude_limit \in {<<>>, <<0, 2>>, <<2, 0>>}
    /\ air_mass_lim \in BOOLEAN
    /\ setup_time \in BOOLEAN
    /\ period_limit \in {<<>>, <<0, 2>>}
    /\ transit_depth_limit \in {<<>>, <<0, 2>>}
    /\ max_airmass = <<2, 2>>
    /\ nanignore_airmass \in BOOLEAN
    /\ time_window \in {<<None, None>>, <<<<60>>, None>>, <<None, <<60>>>>}
    /\ InitLocals
    /\ InitCounter

SpecFilter == InitFilter /\ [][Next]_vars

\* Calls of count_max_schedules on up to MaxCandidates candidate schedules of
\* up to MaxEvents events each.
Events == {<<0, <<2>>, 60, <<0>>, <<120>>>>,
           <<0, <<0>>, 120, <<120>>, <<120>>>>,
           <<0, <<2>>, 120, <<60>>, <<180>>>>}

InitCount ==
    /\ df = [columns |-> AllColumns, rows |-> <<>>]
    /\ magnitude_limit = <<0, 2>>
    /\ air_mass_lim = TRUE
    /\ setup_time = FALSE
    /\ period_limit = <<>>
    /\ transit_depth_limit = <<0, 2>>
    /\ max_airmass = <<2, 2>>
    /\ nanignore_airmass = FALSE
    /\ time_window = <<None, None>>
    /\ row_i = 1
    /\ valid_candidates = <<>>
    /\ cut_list = <<>>
    /\ valid_candidates_df = <<>>
    /\ scan_i = 1
    /\ optimized_schedule = <<>>
    /\ last_end_time = None
    /\ optimized_schedule_df \in SeqsUpTo({<<0>>}, MaxEvents)
    /\ pc = "count"
    /\ all_schedules \in SeqsUpTo(SeqsUpTo(Events, MaxEvents), MaxCandidates)
    /\ max_transit_count = 0
    /\ max_schedules_count = 0
    /\ cand_i = 1
    /\ event_i = 1
    /\ temp_schedule = <<>>
    /\ cand_last_end_time = None
    /\ result = None

NextCount == CountBegin \/ CandidateBegin \/ EventStep \/ CandidateEnd \/ CountReturn

SpecCount == InitCount /\ [][NextCount]_vars

\* count_max_schedules called on the outcome of a run of optimize_schedule that
\* returned: the single candidate is the admitted events of the run in the
\* ascending end-time order of line 264, as the tuples lines 230-231 stored,
\* and optimized_schedule_df is the schedule the run returned.
CallCount ==
    /\ pc = "done"
    /\ all_schedules' = <<valid_candidates_df>>
    /\ pc' = "count"
    /\ UNCHANGED <<inputs, locals, optimized_schedule_df, max_transit_count,
                   max_schedules_count, cand_i, event_i, temp_schedule,
                   cand_last_end_time, result>>

NextPipeline ==
    \/ FilterRow \/ SortCandidates \/ ScanRow \/ BuildAndReturn
    \/ CallCount
    \/ CountBegin \/ CandidateBegin \/ EventStep \/ CandidateEnd \/ CountReturn

SpecPipeline == Init /\ [][NextPipeline]_vars

---------------------------------------------------------------------------
\* Properties of optimize_schedule.

Range(seq) == {seq[i] : i \in 1..Len(seq)}
Occurrences(seq, name) == Cardinality({i \in 1..Len(seq) : NameOf(seq[i]) = name})
Overlapped == {e \in Range(cut_list) : CauseOf(e) = Overlapping}
Rejected == {e \in Range(cut_list) : CauseOf(e) # Overlapping}
Row(entry) == df.rows[NameOf(entry)]

\* C1: in the returned schedule no two consecutive rows overlap: the schedule
\* end of row i is at most the schedule start of row i+1, and so are their
\* transit end and transit start.
C1_NoOverlap ==
    pc = "done" =>
        \A i \in 1..(Len(optimized_schedule_df) - 1) :
            LET a == optimized_schedule_df[i]
                b == optimized_schedule_df[i + 1]
            IN  /\ ScheduleEndOf(a) <= ScheduleStartOf(b)
                /\ EndOf(a)[1] <= StartOf(b)[1]

C1_Witness ==
    /\ pc = "done"
    /\ setup_time
    /\ Len(optimized_schedule_df) >= 2
    /\ Overlapped # {}

\* The largest number of admitted events whose effective intervals are pairwise
\* non-overlapping (end <= start counts as non-overlapping), over all subsets.
Compatible(a, b) ==
    \/ schedule_end_time(a) <= schedule_start_time(b)
    \/ schedule_end_time(b) <= schedule_start_time(a)

IndependentSets(rows) ==
    {S \in SUBSET (1..Len(rows)) :
        \A i, j \in S : i # j => Compatible(rows[i], rows[j])}

MaxIndependent(rows) ==
    CHOOSE n \in 0..Len(rows) :
        /\ \E S \in IndependentSets(rows) : Cardinality(S) = n
        /\ \A S \in IndependentSets(rows) : Cardinality(S) <= n

\* C2: the number of events in the returned schedule is the maximum size of a
\* set of admitted events with pairwise non-overlapping effective intervals.
C2_GreedyIsMaximum ==
    pc = "done" => Len(optimized_schedule_df) = MaxIndependent(valid_candidates)

\* C3: when optimize_schedule returns, every input row is in exactly one of the
\* schedule and the cut list, once, and the two lengths add up to the input's.
C3_Partition ==
    pc = "done" =>
        /\ Len(optimized_schedule_df) + Len(cut_list) = Len(df.rows)
        /\ \A name \in 1..Len(df.rows) :
               Occurrences(optimized_schedule_df, name) + Occurrences(cut_list, name) = 1

C3_Witness ==
    /\ pc = "done"
    /\ Overlapped # {}
    /\ Rejected # {}

\* The checks of the admission filter, in the order of the claim, each with the
\* causes it records.
TransitTimes(row) ==
    calculate_transit_times(row.midpointcalendar, row.transitduration[1], setup_time)

Checks(row) ==
    << <<isna(row.transitduration), {DurationIsNaN}>>,
       <<Truthy(period_limit) /\ (NumLt(row.period, period_limit[1])
                                  \/ NumGt(row.period, period_limit[2])),
         {PeriodExceeded}>>,
       <<~isna(row.transitduration) /\ ~isna(time_window[1])
            /\ TransitTimes(row)[1] < time_window[1][1], {BeforeWindow}>>,
       <<~isna(row.transitduration) /\ ~isna(time_window[2])
            /\ TransitTimes(row)[2] > time_window[2][1], {AfterWindow}>>,
       <<Truthy(magnitude_limit) /\ (NumLt(row.magnitude_k, magnitude_limit[1])
                                     \/ NumGt(row.magnitude_k, magnitude_limit[2])),
         {MagnitudeExceeded}>>,
       <<air_mass_lim /\ NumGt(row.midpointairmass, AirMassCap), {AirMassExceeded}>>,
       <<Truthy(transit_depth_limit)
            /\ (NumLt(row.transitdepthcalc, transit_depth_limit[1])
                \/ NumGt(row.transitdepthcalc, transit_depth_limit[2])),
         {DepthExceeded}>>,
       <<~nanignore_airmass
            /\ (isna(ingress_air_mass(row)) \/ isna(egress_air_mass(row))),
         {AirMassNaN, AirMassMissing}>>,
       <<\/ NumGt(ingress_air_mass(row), max_airmass[1])
         \/ NumGt(egress_air_mass(row), max_airmass[2]),
         {IngressEgressExceeded}>> >>

Failed(row) == LET checks == Checks(row) IN {k \in 1..Len(checks) : checks[k][1]}
Earliest(S) == CHOOSE k \in S : \A j \in S : k <= j

\* C4: a rejected event carries the cause of the earliest check it fails, and
\* an event with NaN duration is cut as "Duration is NaN" with null start and end.
C4_FirstMatchWins ==
    /\ \A e \in Rejected :
           LET failed == Failed(Row(e))
           IN  /\ failed # {}
               /\ CauseOf(e) \in Checks(Row(e))[Earliest(failed)][2]
    /\ \A k \in 1..(row_i - 1) :
           isna(df.rows[k].transitduration) =>
               \E e \in Rejected :
                   /\ NameOf(e) = k
                   /\ CauseOf(e) = DurationIsNaN
                   /\ StartOf(e) = None
                   /\ EndOf(e) = None

C4_Witness ==
    \E e \in Rejected :
        /\ {5, 6} \subseteq Failed(Row(e))
        /\ CauseOf(e) = MagnitudeExceeded

\* The rows the claim C5 is about: past checks 1-6, NaN not ignored, and the
\* ingress or egress air mass absent or NaN.
AirMassDataLacking(row) ==
    /\ Failed(row) \cap (1..7) = {}
    /\ ~nanignore_airmass
    /\ isna(ingress_air_mass(row)) \/ isna(egress_air_mass(row))

\* C5: such a row is cut as "NaN in ingress/egress air mass" exactly when both
\* air mass columns exist, and as "Ingress/Egress air mass data missing"
\* exactly when at least one of them is absent.
C5_MissingColumnCause ==
    \A k \in 1..(row_i - 1) :
        AirMassDataLacking(df.rows[k]) =>
            \E e \in Rejected :
                /\ NameOf(e) = k
                /\ CauseOf(e) = AirMassNaN
                       <=> (ingress_column_exists /\ egress_column_exists)
                /\ CauseOf(e) = AirMassMissing
                       <=> ~(ingress_column_exists /\ egress_column_exists)

C5_Witness ==
    /\ ~ingress_column_exists
    /\ egress_column_exists
    /\ \E e \in Rejected :
           /\ AirMassDataLacking(Row(e))
           /\ egress_air_mass(Row(e)) = <<1>>
           /\ CauseOf(e) = AirMassMissing

\* A range whose maximum is less than its minimum.
MalformedRange(limit) == Truthy(limit) /\ limit[2] < limit[1]
Malformed ==
    \/ MalformedRange(magnitude_limit)
    \/ MalformedRange(period_limit)
    \/ MalformedRange(transit_depth_limit)

\* C6: with a malformed range optimize_schedule fails before any input row is
\* classified.
C6_FailFast ==
    Malformed =>
        /\ valid_candidates = <<>>
        /\ cut_list = <<>>
        /\ row_i = 1

\* What the run recorded for input row k: its tuple among the admitted, or in
\* the cut list with a cause of the filter.
WithoutCause(entry) == SubSeq(entry, 1, 11)
Recorded(k) ==
    CHOOSE info \in Range(valid_candidates) \cup {WithoutCause(e) : e \in Rejected} :
        NameOf(info) = k
IsAdmitted(k) == \E info \in Range(valid_candidates) : NameOf(info) = k

\* C7: without a time window, the run and the run with the other value of
\* setup_time admit the same rows, and each derived start is 30 minutes earlier
\* and each derived end 30 minutes later with setup_time on than with it off.
C7_SetupShift ==
    time_window = <<None, None>> =>
        \A k \in 1..(row_i - 1) :
            LET mine == Recorded(k)
                other == RowOutcome(df.rows[k], ~setup_time)
                on == IF setup_time THEN mine ELSE other.info
                off == IF setup_time THEN other.info ELSE mine
            IN  /\ IsAdmitted(k) <=> other.cause = Admitted
                /\ isna(StartOf(on)) <=> isna(StartOf(off))
                /\ ~isna(StartOf(on)) =>
                       /\ StartOf(on)[1] = StartOf(off)[1] - 30
                       /\ EndOf(on)[1] = EndOf(off)[1] + 30

C7_Witness ==
    /\ time_window = <<None, None>>
    /\ setup_time
    /\ row_i > 1
    /\ valid_candidates # <<>>

\* The window calculate_transit_times derives for an admitted row.
Derived(row) == calculate_transit_times(MidpointOf(row), DurationOf(row)[1], setup_time)
DerivedOverlap(a, b) ==
    /\ Derived(a)[1] < Derived(b)[2]
    /\ Derived(b)[1] < Derived(a)[2]

\* C8: with setup_time on, the start and end the overlap test compares are the
\* ones calculate_transit_times derived, so an event is cut as overlapping only
\* if its derived window overlaps that of a scheduled event.
C8_SinglePad ==
    (setup_time /\ pc \in {"scan", "done"}) =>
        /\ \A r \in Range(valid_candidates_df) :
               /\ schedule_start_time(r) = Derived(r)[1]
               /\ schedule_end_time(r) = Derived(r)[2]
        /\ \A e \in Overlapped :
               \E r \in Range(optimized_schedule) : DerivedOverlap(WithoutCause(e), r)

\* C9: the scan visits the admitted events in ascending end time, events with
\* equal end times in their input order.
C9_StableOrder ==
    pc \in {"scan", "done", "raised"} =>
        \A i, j \in 1..Len(valid_candidates_df) :
            i < j =>
                LET a == valid_candidates_df[i]
                    b == valid_candidates_df[j]
                IN  \/ EndOf(a)[1] < EndOf(b)[1]
                    \/ EndOf(a)[1] = EndOf(b)[1] /\ NameOf(a) < NameOf(b)

---------------------------------------------------------------------------
\* Properties of count_max_schedules.

\* The number of events a forward scan of `events` from position k accepts, in
\* the order given, when `last` is the end of the last accepted event.
RECURSIVE ForwardScan(_, _, _)
ForwardScan(events, k, last) ==
    IF k > Len(events) THEN 0
    ELSE IF isna(last) \/ events[k][4][1] >= last[1]
         THEN 1 + ForwardScan(events, k + 1, events[k][5])
         ELSE ForwardScan(events, k + 1, last)

Matching ==
    {k \in 1..Len(all_schedules) :
        ForwardScan(all_schedules[k], 1, None) = Len(optimized_schedule_df)}

\* C10: count_max_schedules returns the number of candidates of which a forward
\* scan accepts exactly len(optimized_schedule_df) events, a number between 0
\* and the number of candidates, and changes neither of its arguments.
C10_CountsMatches ==
    /\ [](pc = "returned" =>
             /\ result = <<Cardinality(Matching)>>
             /\ result[1] \in 0..Len(all_schedules))
    /\ [][/\ all_schedules' = all_schedules
          /\ optimized_schedule_df' = optimized_schedule_df]_vars

C10_Witness ==
    /\ pc = "returned"
    /\ Len(all_schedules) = 2
    /\ result = <<1>>
    /\ \E k \in 1..2 : ForwardScan(all_schedules[k], 1, None) < Len(all_schedules[k])

---------------------------------------------------------------------------
\* Properties of the two functions together.

\* C11: when count_max_schedules is given, as its single candidate, the admitted
\* events of a run of optimize_schedule in ascending end-time order, and the
\* schedule that run returned, it returns 1, with setup_time on and off.
C11_CounterAgrees ==
    pc = "returned" => result = <<1>>

\* The same with setup_time off only.
C11_CounterAgreesUnpadded ==
    (pc = "returned" /\ ~setup_time) => result = <<1>>

=============================================================================
